---- MODULE Spec2Model ----
(***************************************************************************)
(* Ashtakoota compatibility engine of app-api.                             *)
(*                                                                         *)
(*   app/agents/tools.py                   reference tables and the        *)
(*                                         eight-factor scorer             *)
(*                                         compatibility_ashtakoota        *)
(*   app/services/compatibility_service.py compute_ashtakoota_raw: role    *)
(*                                         resolution and friendship fold  *)
(*   app/routers/users.py                  _calculate_max_score            *)
(*                                                                         *)
(* Scores are kept in half points (Pts(1) is one guna point) because the   *)
(* Tara factor can score 1.5.                                              *)
(***************************************************************************)
EXTENDS Integers, Sequences, FiniteSets, TLC

VARIABLES
    user,                \* requesting user: panchanga details and gender
    counterpart,         \* the other User or Partner
    compatibility_type,  \* "love", "friendship" or "none" (None)
    pc,                  \* "call" before compute_ashtakoota_raw ran, "done" after
    a_first,             \* local a_first of compute_ashtakoota_raw
    a_swap,              \* local a_swap of compute_ashtakoota_raw
    ak_raw,              \* local ak as selected, before the friendship fold
    ak,                  \* what compute_ashtakoota_raw returned (or raised)
    ashtakoota_result,   \* what _calculate_compatibility handed to the analysis
                         \* step, or the HTTPException it raised instead
    people,              \* users and partners tables: id -> birth details and gender
    thread,              \* one row of chat_threads, or NoThread before it is created
    compatibilities,     \* compatibilities table of the current user:
                         \* <<other id, report_type>> -> result_json, or Null
    analysis             \* what the last report request returned

storeVars == <<people, thread, compatibilities, analysis>>

vars ==
    <<user, counterpart, compatibility_type, pc, a_first, a_swap, ak_raw, ak,
      ashtakoota_result, people, thread, compatibilities, analysis>>

(***************************************************************************)
(* Units                                                                   *)
(***************************************************************************)
Pts(n) == 2 * n

(***************************************************************************)
(* Reference tables (tools.py 196-331)                                     *)
(***************************************************************************)
RASHI_TO_VARNA ==
    <<"Kshatriya", "Vaishya", "Shudra", "Brahmin", "Kshatriya", "Vaishya",
      "Shudra", "Kshatriya", "Kshatriya", "Vaishya", "Shudra", "Brahmin">>

VARNA_HIERARCHY ==
    [Brahmin |-> 4, Kshatriya |-> 3, Vaishya |-> 2, Shudra |-> 1]

RASHI_TO_VASHYA ==
    <<"Chatushpada", "Chatushpada", "Dwipad", "Jalachar", "Chatushpada", "Dwipad",
      "Dwipad", "Keeta", "Dwipad", "Jalachar", "Jalachar", "Jalachar">>

\* mutant: two-footed signs also hold sway over four-footed ones
VASHYA_COMPATIBLE_control ==
    [Chatushpada |-> {"Chatushpada"}, Dwipad |-> {"Dwipad", "Chatushpada"},
     Jalachar |-> {"Jalachar"}, Vanachara |-> {"Vanachara"}, Keeta |-> {"Keeta"}]

VASHYA_COMPATIBLE ==
    [Chatushpada |-> {"Chatushpada"}, Dwipad |-> {"Dwipad"}, Jalachar |-> {"Jalachar"},
     Vanachara |-> {"Vanachara"}, Keeta |-> {"Keeta"}]

VASHYA_SPECIAL ==
    (<<1, 5>> :> 2) @@ (<<5, 1>> :> 2) @@ (<<2, 7>> :> 2) @@ (<<7, 2>> :> 2) @@
    (<<3, 6>> :> 2) @@ (<<6, 3>> :> 2) @@ (<<4, 8>> :> 1) @@ (<<8, 4>> :> 1) @@
    (<<9, 12>> :> 2) @@ (<<12, 9>> :> 2) @@ (<<10, 11>> :> 1) @@ (<<11, 10>> :> 1)

\* mutant: the classes are spelled as the pair sets spell them
NAKSHATRA_TO_YONI_respelled ==
    <<"Ashva", "Gaja", "Mesha", "Sarpa", "Sarpa", "Shvana", "Marjara", "Mesha", "Marjara",
      "Mushaka", "Mushaka", "Gau", "Mahisha", "Vyaghra", "Mahisha", "Vyaghra", "Mriga",
      "Mriga", "Shvana", "Vana", "Nakula", "Vana", "Simha", "Ashva", "Simha", "Gau",
      "Gaja">>

\* mutant: asterism 21 is given the class of asterisms 4 and 5
NAKSHATRA_TO_YONI_no_nakula ==
    <<"Ashwa", "Gaja", "Mesha", "Sarpa", "Sarpa", "Shwan", "Marjara", "Mesha", "Marjara",
      "Mushaka", "Mushaka", "Gau", "Mahisha", "Vyaghra", "Mahisha", "Vyaghra", "Mriga",
      "Mriga", "Shwan", "Vanara", "Sarpa", "Vanara", "Simha", "Ashwa", "Simha", "Gau",
      "Gaja">>

NAKSHATRA_TO_YONI ==
    <<"Ashwa", "Gaja", "Mesha", "Sarpa", "Sarpa", "Shwan", "Marjara", "Mesha", "Marjara",
      "Mushaka", "Mushaka", "Gau", "Mahisha", "Vyaghra", "Mahisha", "Vyaghra", "Mriga",
      "Mriga", "Shwan", "Vanara", "Nakula", "Vanara", "Simha", "Ashwa", "Simha", "Gau",
      "Gaja">>

FRIENDLY_PAIRS ==
    { <<"Ashva", "Sarpa">>, <<"Ashva", "Mriga">>, <<"Ashva", "Vana">>,
      <<"Gaja", "Mesha">>, <<"Gaja", "Mahisha">>, <<"Gaja", "Vana">>,
      <<"Mesha", "Gau">>, <<"Mesha", "Mahisha">>,
      <<"Sarpa", "Gaja">>, <<"Sarpa", "Ashva">>,
      <<"Shvana", "Vana">>,
      <<"Marjara", "Mriga">>, <<"Marjara", "Simha">>,
      <<"Nakula", "Matsya">>,
      <<"Mushaka", "Marjara">>,
      <<"Gau", "Mesha">>, <<"Gau", "Vyaghra">>,
      <<"Mahisha", "Gaja">>, <<"Mahisha", "Mesha">>,
      <<"Vyaghra", "Gau">>,
      <<"Mriga", "Ashva">>, <<"Mriga", "Marjara">>,
      <<"Vana", "Ashva">>, <<"Vana", "Gaja">>, <<"Vana", "Shvana">>,
      <<"Simha", "Marjara">>,
      <<"Matsya", "Nakula">> }

ENEMY_PAIRS ==
    { <<"Ashva", "Mahisha">>, <<"Gaja", "Simha">>, <<"Mesha", "Vana">>, <<"Sarpa", "Nakula">>,
      <<"Shvana", "Mriga">>, <<"Marjara", "Mushaka">>, <<"Nakula", "Sarpa">>,
      <<"Gau", "Vyaghra">>, <<"Mahisha", "Ashva">>, <<"Vyaghra", "Gau">>,
      <<"Mriga", "Shvana">>, <<"Vana", "Mesha">>, <<"Simha", "Gaja">>, <<"Mushaka", "Marjara">> }

\* mutant: Gaja and Simha are enemies but not highly inimical
HIGHLY_INIMICAL_PAIRS_no_gaja_simha ==
    { <<"Ashva", "Mahisha">>, <<"Mahisha", "Ashva">>,
      <<"Mesha", "Vana">>, <<"Vana", "Mesha">>,
      <<"Nakula", "Sarpa">>, <<"Sarpa", "Nakula">>,
      <<"Mriga", "Shvana">>, <<"Shvana", "Mriga">>,
      <<"Marjara", "Mushaka">>, <<"Mushaka", "Marjara">>,
      <<"Gau", "Vyaghra">>, <<"Vyaghra", "Gau">> }

HIGHLY_INIMICAL_PAIRS ==
    { <<"Ashva", "Mahisha">>, <<"Mahisha", "Ashva">>,
      <<"Gaja", "Simha">>, <<"Simha", "Gaja">>,
      <<"Mesha", "Vana">>, <<"Vana", "Mesha">>,
      <<"Nakula", "Sarpa">>, <<"Sarpa", "Nakula">>,
      <<"Mriga", "Shvana">>, <<"Shvana", "Mriga">>,
      <<"Marjara", "Mushaka">>, <<"Mushaka", "Marjara">>,
      <<"Gau", "Vyaghra">>, <<"Vyaghra", "Gau">> }

YoniValues == { NAKSHATRA_TO_YONI[n] : n \in DOMAIN NAKSHATRA_TO_YONI }

\* mutant: the friendly and enemy sets are consulted in the given order only
YONI_COMPATIBILITY_one_order ==
    [pair \in YoniValues \X YoniValues |->
        IF pair[1] = pair[2] THEN 4
        ELSE IF pair \in HIGHLY_INIMICAL_PAIRS THEN 0
        ELSE IF pair \in FRIENDLY_PAIRS THEN 3
        ELSE IF pair \in ENEMY_PAIRS THEN 1
        ELSE 2]

\* mutant: the friendly set is consulted before the highly inimical one
YONI_COMPATIBILITY_friendly_first ==
    [pair \in YoniValues \X YoniValues |->
        IF pair[1] = pair[2] THEN 4
        ELSE IF pair \in FRIENDLY_PAIRS \/ <<pair[2], pair[1]>> \in FRIENDLY_PAIRS THEN 3
        ELSE IF pair \in HIGHLY_INIMICAL_PAIRS THEN 0
        ELSE IF pair \in ENEMY_PAIRS \/ <<pair[2], pair[1]>> \in ENEMY_PAIRS THEN 1
        ELSE 2]

YONI_COMPATIBILITY ==
    [pair \in YoniValues \X YoniValues |->
        IF pair[1] = pair[2] THEN 4
        ELSE IF pair \in HIGHLY_INIMICAL_PAIRS THEN 0
        ELSE IF pair \in FRIENDLY_PAIRS \/ <<pair[2], pair[1]>> \in FRIENDLY_PAIRS THEN 3
        ELSE IF pair \in ENEMY_PAIRS \/ <<pair[2], pair[1]>> \in ENEMY_PAIRS THEN 1
        ELSE 2]

RASHI_LORDS ==
    <<"Mars", "Venus", "Mercury", "Moon", "Sun", "Mercury", "Venus", "Mars", "Jupiter",
      "Saturn", "Saturn", "Jupiter">>

PLANET_RELATIONSHIPS ==
    [Sun     |-> [friends |-> {"Moon", "Mars", "Jupiter"}, enemies |-> {"Venus", "Saturn"},
                  neutral |-> {"Mercury"}],
     Moon    |-> [friends |-> {"Sun", "Mercury"}, enemies |-> {},
                  neutral |-> {"Mars", "Jupiter", "Venus", "Saturn"}],
     Mars    |-> [friends |-> {"Sun", "Moon", "Jupiter"}, enemies |-> {"Mercury"},
                  neutral |-> {"Venus", "Saturn"}],
     Mercury |-> [friends |-> {"Sun", "Venus"}, enemies |-> {"Moon"},
                  neutral |-> {"Mars", "Jupiter", "Saturn"}],
     Jupiter |-> [friends |-> {"Sun", "Moon", "Mars"}, enemies |-> {"Mercury", "Venus"},
                  neutral |-> {"Saturn"}],
     Venus   |-> [friends |-> {"Mercury", "Saturn"}, enemies |-> {"Sun", "Moon"},
                  neutral |-> {"Mars", "Jupiter"}],
     Saturn  |-> [friends |-> {"Mercury", "Venus"}, enemies |-> {"Sun", "Moon", "Mars"},
                  neutral |-> {"Jupiter"}]]

NAKSHATRA_TO_GANA ==
    <<"Deva", "Manushya", "Rakshasa", "Manushya", "Deva", "Manushya", "Deva", "Deva",
      "Rakshasa", "Rakshasa", "Manushya", "Manushya", "Deva", "Rakshasa", "Deva",
      "Rakshasa", "Deva", "Rakshasa", "Rakshasa", "Manushya", "Manushya", "Deva",
      "Rakshasa", "Rakshasa", "Manushya", "Manushya", "Deva">>

GANA_SCORING_TABLE ==
    (<<"Deva", "Deva">> :> 6) @@ (<<"Deva", "Manushya">> :> 6) @@
    (<<"Deva", "Rakshasa">> :> 0) @@ (<<"Manushya", "Deva">> :> 5) @@
    (<<"Manushya", "Manushya">> :> 6) @@ (<<"Manushya", "Rakshasa">> :> 1) @@
    (<<"Rakshasa", "Deva">> :> 1) @@ (<<"Rakshasa", "Manushya">> :> 0) @@
    (<<"Rakshasa", "Rakshasa">> :> 6)

BHAKOOT_MATRIX ==
    << <<7, 0, 7, 7, 0, 0, 7, 0, 0, 7, 7, 0>>,
       <<0, 7, 0, 7, 7, 0, 0, 7, 0, 0, 7, 7>>,
       <<7, 0, 7, 0, 7, 7, 0, 0, 7, 0, 0, 7>>,
       <<7, 7, 0, 7, 0, 7, 7, 0, 0, 7, 0, 0>>,
       <<0, 7, 7, 0, 7, 0, 7, 7, 0, 0, 7, 0>>,
       <<0, 0, 7, 7, 0, 7, 0, 7, 7, 0, 0, 7>>,
       <<7, 0, 0, 7, 7, 0, 7, 0, 7, 7, 0, 0>>,
       <<0, 7, 0, 0, 7, 7, 0, 7, 0, 7, 7, 0>>,
       <<0, 0, 7, 0, 0, 7, 7, 0, 7, 0, 7, 7>>,
       <<7, 0, 0, 7, 0, 0, 7, 7, 0, 7, 0, 7>>,
       <<7, 7, 0, 0, 7, 0, 0, 7, 7, 0, 7, 0>>,
       <<0, 7, 7, 0, 0, 7, 0, 0, 7, 7, 0, 7>> >>

\* mutant: the table stops at asterism 26
NAKSHATRA_TO_NADI_short ==
    <<"Adi", "Madhya", "Antya", "Adi", "Madhya", "Antya", "Adi", "Madhya", "Antya",
      "Adi", "Madhya", "Antya", "Adi", "Madhya", "Antya", "Adi", "Madhya", "Antya",
      "Adi", "Madhya", "Antya", "Adi", "Madhya", "Antya", "Adi", "Madhya">>

NAKSHATRA_TO_NADI ==
    <<"Adi", "Madhya", "Antya", "Adi", "Madhya", "Antya", "Adi", "Madhya", "Antya",
      "Adi", "Madhya", "Antya", "Adi", "Madhya", "Antya", "Adi", "Madhya", "Antya",
      "Adi", "Madhya", "Antya", "Adi", "Madhya", "Antya", "Adi", "Madhya", "Antya">>

(***************************************************************************)
(* The eight scorers (tools.py 358-447).  Each X_raises tells whether a    *)
(* subscript lookup of the scorer fails with KeyError.                     *)
(***************************************************************************)
varna_raises(r1, r2) ==
    \/ r1 \notin DOMAIN RASHI_TO_VARNA
    \/ r2 \notin DOMAIN RASHI_TO_VARNA
    \/ RASHI_TO_VARNA[r1] \notin DOMAIN VARNA_HIERARCHY
    \/ RASHI_TO_VARNA[r2] \notin DOMAIN VARNA_HIERARCHY

\* mutant: a point only when both signs are of the same caste
varna_score_equal_only(r1, r2) ==
    IF RASHI_TO_VARNA[r1] = RASHI_TO_VARNA[r2] THEN Pts(1) ELSE 0

varna_score(r1, r2) ==
    LET v1 == RASHI_TO_VARNA[r1]
        v2 == RASHI_TO_VARNA[r2]
    IN  IF v1 = v2 \/ VARNA_HIERARCHY[v1] >= VARNA_HIERARCHY[v2]
        THEN Pts(1)
        ELSE 0

vashya_raises(r1, r2) ==
    /\ <<r1, r2>> \notin DOMAIN VASHYA_SPECIAL
    /\ (r1 \notin DOMAIN RASHI_TO_VASHYA \/ r2 \notin DOMAIN RASHI_TO_VASHYA)

\* mutant: no floor of one point when the classes do not match
vashya_score_no_floor(r1, r2) ==
    IF <<r1, r2>> \in DOMAIN VASHYA_SPECIAL
    THEN Pts(VASHYA_SPECIAL[<<r1, r2>>])
    ELSE IF RASHI_TO_VASHYA[r1] = RASHI_TO_VASHYA[r2] THEN Pts(2) ELSE 0

\* mutant: the special pairs are not looked up
vashya_score_no_special(r1, r2) ==
    IF RASHI_TO_VASHYA[r1] = RASHI_TO_VASHYA[r2]
       \/ RASHI_TO_VASHYA[r2] \in VASHYA_COMPATIBLE[RASHI_TO_VASHYA[r1]]
    THEN Pts(2)
    ELSE Pts(1)

vashya_score(r1, r2) ==
    IF <<r1, r2>> \in DOMAIN VASHYA_SPECIAL
    THEN Pts(VASHYA_SPECIAL[<<r1, r2>>])
    ELSE LET v1 == RASHI_TO_VASHYA[r1]
             v2 == RASHI_TO_VASHYA[r2]
             compatible == IF v1 \in DOMAIN VASHYA_COMPATIBLE
                           THEN VASHYA_COMPATIBLE[v1]
                           ELSE {}
         IN  IF v1 = v2 \/ v2 \in compatible THEN Pts(2) ELSE Pts(1)

\* mutant: only the even remainders are favorable
TaraFavorable_even == {2, 4, 6, 8}

TaraFavorable == {2, 4, 6, 8, 9}

\* mutant: only the count from the girl to the boy is looked at
tara_score_one_way(boy_nakshatra, girl_nakshatra) ==
    LET m1   == (boy_nakshatra - girl_nakshatra) % 27
        d1   == IF m1 = 0 THEN 27 ELSE m1
        r1   == d1 % 9
        rem1 == IF r1 = 0 THEN 9 ELSE r1
    IN  IF rem1 \in {2, 4, 6, 8, 9} THEN Pts(3) ELSE Pts(3) \div 2

tara_score(boy_nakshatra, girl_nakshatra) ==
    LET m1   == (boy_nakshatra - girl_nakshatra) % 27
        d1   == IF m1 = 0 THEN 27 ELSE m1
        r1   == d1 % 9
        rem1 == IF r1 = 0 THEN 9 ELSE r1
        m2   == (girl_nakshatra - boy_nakshatra) % 27
        d2   == IF m2 = 0 THEN 27 ELSE m2
        r2   == d2 % 9
        rem2 == IF r2 = 0 THEN 9 ELSE r2
        even1 == rem1 \in TaraFavorable
        even2 == rem2 \in TaraFavorable
    IN  IF even1 /\ even2 THEN Pts(3)
        ELSE IF even1 \/ even2 THEN Pts(3) \div 2
        ELSE 0

yoni_raises(n1, n2) ==
    n1 \notin DOMAIN NAKSHATRA_TO_YONI \/ n2 \notin DOMAIN NAKSHATRA_TO_YONI

yoni_score(n1, n2) ==
    LET y1 == NAKSHATRA_TO_YONI[n1]
        y2 == NAKSHATRA_TO_YONI[n2]
    IN  IF <<y1, y2>> \in DOMAIN YONI_COMPATIBILITY
        THEN Pts(YONI_COMPATIBILITY[<<y1, y2>>])
        ELSE IF <<y2, y1>> \in DOMAIN YONI_COMPATIBILITY
        THEN Pts(YONI_COMPATIBILITY[<<y2, y1>>])
        ELSE Pts(2)

maitri_raises(r1, r2) ==
    \/ r1 \notin DOMAIN RASHI_LORDS
    \/ r2 \notin DOMAIN RASHI_LORDS
    \/ /\ RASHI_LORDS[r1] # RASHI_LORDS[r2]
       /\ RASHI_LORDS[r1] \notin DOMAIN PLANET_RELATIONSHIPS

\* mutant: the relation is read from the side of the girl's lord
maitri_score_secondary_side(r1, r2) ==
    LET lord1 == RASHI_LORDS[r1]
        lord2 == RASHI_LORDS[r2]
    IN  IF lord1 = lord2 THEN Pts(5)
        ELSE IF lord1 \in PLANET_RELATIONSHIPS[lord2].friends THEN Pts(4)
        ELSE IF lord1 \in PLANET_RELATIONSHIPS[lord2].neutral THEN Pts(3)
        ELSE IF lord1 \in PLANET_RELATIONSHIPS[lord2].enemies THEN Pts(1)
        ELSE 0

maitri_score(r1, r2) ==
    LET lord1 == RASHI_LORDS[r1]
        lord2 == RASHI_LORDS[r2]
    IN  IF lord1 = lord2 THEN Pts(5)
        ELSE IF lord2 \in PLANET_RELATIONSHIPS[lord1].friends THEN Pts(4)
        ELSE IF lord2 \in PLANET_RELATIONSHIPS[lord1].neutral THEN Pts(3)
        ELSE IF lord2 \in PLANET_RELATIONSHIPS[lord1].enemies THEN Pts(1)
        ELSE 0

gana_raises(girl_nakshatra, boy_nakshatra) ==
    \/ girl_nakshatra \notin DOMAIN NAKSHATRA_TO_GANA
    \/ boy_nakshatra \notin DOMAIN NAKSHATRA_TO_GANA

\* mutant: the table is read with the boy's temperament first; the two mixed
\* Deva/Rakshasa cells then change places
gana_score_boy_first(girl_nakshatra, boy_nakshatra) ==
    LET g1 == NAKSHATRA_TO_GANA[boy_nakshatra]
        g2 == NAKSHATRA_TO_GANA[girl_nakshatra]
    IN  IF <<g1, g2>> \in DOMAIN GANA_SCORING_TABLE
        THEN Pts(GANA_SCORING_TABLE[<<g1, g2>>])
        ELSE 0

\* mutant: Deva with Rakshasa scores 0 whichever of the two is the girl
gana_score_mixed_zero(girl_nakshatra, boy_nakshatra) ==
    LET g1 == NAKSHATRA_TO_GANA[girl_nakshatra]
        g2 == NAKSHATRA_TO_GANA[boy_nakshatra]
    IN  IF {g1, g2} = {"Deva", "Rakshasa"} THEN 0
        ELSE IF <<g1, g2>> \in DOMAIN GANA_SCORING_TABLE
        THEN Pts(GANA_SCORING_TABLE[<<g1, g2>>])
        ELSE 0

gana_score(girl_nakshatra, boy_nakshatra) ==
    LET g1 == NAKSHATRA_TO_GANA[girl_nakshatra]
        g2 == NAKSHATRA_TO_GANA[boy_nakshatra]
    IN  IF <<g1, g2>> \in DOMAIN GANA_SCORING_TABLE
        THEN Pts(GANA_SCORING_TABLE[<<g1, g2>>])
        ELSE 0

bhakoot_score(r1, r2) ==
    IF r1 \in DOMAIN BHAKOOT_MATRIX /\ r2 \in DOMAIN BHAKOOT_MATRIX[r1]
    THEN Pts(BHAKOOT_MATRIX[r1][r2])
    ELSE 0

nadi_raises(n1, n2) ==
    n1 \notin DOMAIN NAKSHATRA_TO_NADI \/ n2 \notin DOMAIN NAKSHATRA_TO_NADI

nadi_score(n1, n2) ==
    IF NAKSHATRA_TO_NADI[n1] # NAKSHATRA_TO_NADI[n2] THEN Pts(8) ELSE 0

\* mutant: cancelled only when exactly one of sign and asterism coincides
nadi_dosha_cancel_xor(r1, n1, r2, n2) ==
    \/ (r1 = r2 /\ n1 # n2)
    \/ (n1 = n2 /\ r1 # r2)

\* mutant: a shared sign alone does not cancel
nadi_dosha_cancel_nak_only(r1, n1, r2, n2) ==
    \/ (n1 = n2 /\ r1 # r2)
    \/ (n1 = n2 /\ r1 = r2)

nadi_dosha_cancel(r1, n1, r2, n2) ==
    \/ (r1 = r2 /\ n1 # n2)
    \/ (n1 = n2 /\ r1 # r2)
    \/ (n1 = n2 /\ r1 = r2)

bhakoot_dosha_cancel(r1, r2) == r1 = r2

(***************************************************************************)
(* compatibility_ashtakoota (tools.py 333-486).  The scores dict is built  *)
(* in the order Varna .. Nadi, so the first scorer whose lookup fails is   *)
(* the one whose KeyError leaves the function.  The pada arguments are     *)
(* accepted and never read.                                                *)
(***************************************************************************)
KootaNames == {"Varna", "Vashya", "Tara", "Yoni", "Maitri", "Gana", "Bhakoot", "Nadi"}

SumScores(scores) ==
    scores.Varna + scores.Vashya + scores.Tara + scores.Yoni
        + scores.Maitri + scores.Gana + scores.Bhakoot + scores.Nadi

Explanation ==
    [Varna   |-> "Varna (Personality): Based on Moon sign caste classification.",
     Vashya  |-> "Vashya (Dominance/Mutual Influence): Based on Rashi mutual influence.",
     Tara    |-> "Tara (Health): Based on Nakshatra distance.",
     Yoni    |-> "Yoni (Sexual): Based on Nakshatra yoni animal compatibility.",
     Maitri  |-> "Maitri (Friendship): Based on Moon lord friendship.",
     Gana    |-> "Gana (Temperament): Based on Nakshatra gana type.",
     Bhakoot |-> "Bhakoot (Emotional): Based on Moon sign distance matrix.",
     Nadi    |-> "Nadi (Future Generation): Based on Nakshatra nadi type."]

KeyError(scorer) == [status |-> "KeyError", scorer |-> scorer]

compatibility_ashtakoota(boy_rashi, boy_nakshatra, boy_pada, girl_rashi, girl_nakshatra, girl_pada) ==
    IF varna_raises(boy_rashi, girl_rashi) THEN KeyError("varna_score")
    ELSE IF vashya_raises(boy_rashi, girl_rashi) THEN KeyError("vashya_score")
    ELSE IF yoni_raises(boy_nakshatra, girl_nakshatra) THEN KeyError("yoni_score")
    ELSE IF maitri_raises(boy_rashi, girl_rashi) THEN KeyError("maitri_score")
    ELSE IF gana_raises(girl_nakshatra, boy_nakshatra) THEN KeyError("gana_score")
    ELSE IF nadi_raises(boy_nakshatra, girl_nakshatra) THEN KeyError("nadi_score")
    ELSE
    LET scores ==
            [Varna   |-> varna_score(boy_rashi, girl_rashi),
             Vashya  |-> vashya_score(boy_rashi, girl_rashi),
             Tara    |-> tara_score(boy_nakshatra, girl_nakshatra),
             Yoni    |-> yoni_score(boy_nakshatra, girl_nakshatra),
             Maitri  |-> maitri_score(boy_rashi, girl_rashi),
             Gana    |-> gana_score(girl_nakshatra, boy_nakshatra),
             Bhakoot |-> bhakoot_score(boy_rashi, girl_rashi),
             Nadi    |-> nadi_score(boy_nakshatra, girl_nakshatra)]
    IN  [status |-> "ok",
         scores |-> scores,
         total  |-> SumScores(scores),
         explanation |-> Explanation,
         dosha_cancellation |->
            [Nadi    |-> nadi_dosha_cancel(boy_rashi, boy_nakshatra,
                                           girl_rashi, girl_nakshatra),
             Bhakoot |-> bhakoot_dosha_cancel(boy_rashi, girl_rashi)]]

(***************************************************************************)
(* compute_ashtakoota_raw (compatibility_service.py 24-114)                *)
(***************************************************************************)
\* mutant: the pada is handed over in the place of the asterism
run_ak_pada_as_nakshatra(boy, girl) ==
    compatibility_ashtakoota(boy.moon_rashi, boy.pada, boy.pada,
                             girl.moon_rashi, girl.pada, girl.pada)

run_ak(boy, girl) ==
    compatibility_ashtakoota(boy.moon_rashi, boy.nakshatra, boy.pada,
                             girl.moon_rashi, girl.nakshatra, girl.pada)

hetero_love(ctype, user_gender, other_gender) ==
    /\ ctype = "love"
    /\ user_gender \in {"male", "female"}
    /\ other_gender \in {"male", "female"}
    /\ user_gender # other_gender

Min(a, b) == IF a <= b THEN a ELSE b

\* mutant: the fold without the cap of 7 points
FriendshipFoldUncapped(r) ==
    LET folded == [r.scores EXCEPT
                      !.Bhakoot = r.scores.Bhakoot + r.scores.Yoni,
                      !.Yoni = 0]
    IN  [r EXCEPT !.scores = folded, !.total = SumScores(folded)]

\* mutant: Yoni is added to Bhakoot and left in place
FriendshipFoldKeepsYoni(r) ==
    LET folded == [r.scores EXCEPT
                      !.Bhakoot = Min(Pts(7), r.scores.Bhakoot + r.scores.Yoni)]
    IN  [r EXCEPT !.scores = folded, !.total = SumScores(folded)]

\* mutant: the total is not recomputed after the fold
FriendshipFoldStaleTotal(r) ==
    [r EXCEPT !.scores = [r.scores EXCEPT
                      !.Bhakoot = Min(Pts(7), r.scores.Bhakoot + r.scores.Yoni),
                      !.Yoni = 0]]

\* lines 100-113: the fold of Yoni into Bhakoot, in place on the selected dict
FriendshipFold(r) ==
    LET folded == [r.scores EXCEPT
                      !.Bhakoot = Min(Pts(7), r.scores.Bhakoot + r.scores.Yoni),
                      !.Yoni = 0]
    IN  [r EXCEPT
            !.scores = folded,
            !.explanation =
                [@ EXCEPT
                    !.Yoni = "Not applicable for friendship. Yoni folded under emotional closeness.",
                    !.Bhakoot = "Bhakoot (Emotional): Includes Yoni-derived closeness for friendship.",
                    !.Vashya = "Vashya (Mutual Influence): Based on Rashi mutual influence for friendship compatibility."],
            !.total = SumScores(folded)]

\* mutant: a tie goes to the swapped orientation
SelectOrientationStrict(first, swap) ==
    IF first.total > swap.total THEN first ELSE swap

\* mutant: the orientation with the user as boy is always kept
SelectOrientation_first_only(first, swap) == first

\* mutant: the orientation with the lower total is kept
SelectOrientation_lower(first, swap) ==
    IF first.total <= swap.total THEN first ELSE swap

\* line 98: ak = a_first if a_first.total >= a_swap.total else a_swap
SelectOrientation(first, swap) ==
    IF first.total >= swap.total THEN first ELSE swap

\* mutant: the requesting user is always scored as the boy
ResolveHeteroUserFirst(u, c) == run_ak(u, c)

\* lines 78-88: the male profile is the boy, the female profile the girl
ResolveHetero(u, c) ==
    IF u.gender = "male" THEN run_ak(u, c) ELSE run_ak(c, u)

Adapt(ctype, r) ==
    IF ctype = "friendship" /\ r.status = "ok" THEN FriendshipFold(r) ELSE r

ReturnsNone(u, c, ctype) ==
    \/ ctype \notin {"love", "friendship"}
    \/ ~u.birth
    \/ ~c.birth

NoneResult == [status |-> "None"]

Unset == [status |-> "unset"]

\* lines 24-114 as one function of its three arguments: what a call returns
compute_ashtakoota_raw(u, c, ctype) ==
    IF ReturnsNone(u, c, ctype) THEN NoneResult
    ELSE IF hetero_love(ctype, u.gender, c.gender) THEN Adapt(ctype, ResolveHetero(u, c))
    ELSE LET first == run_ak(u, c)
             swap  == run_ak(c, u)
         IN  IF first.status # "ok" THEN first
             ELSE Adapt(ctype, SelectOrientation(first, swap))

\* routers/users.py 121-128
_calculate_max_score(ctype) ==
    IF ctype = "friendship" THEN Pts(36 - 4) ELSE Pts(36)

(***************************************************************************)
(* Actions: one call of compute_ashtakoota_raw, by the branch it takes.    *)
(***************************************************************************)
EarlyReturn ==
    /\ pc = "call"
    /\ ReturnsNone(user, counterpart, compatibility_type)
    /\ pc' = "done"
    /\ ak' = NoneResult
    /\ UNCHANGED <<user, counterpart, compatibility_type, a_first, a_swap, ak_raw,
                   ashtakoota_result>>
    /\ UNCHANGED storeVars

HeteroLove ==
    /\ pc = "call"
    /\ ~ReturnsNone(user, counterpart, compatibility_type)
    /\ hetero_love(compatibility_type, user.gender, counterpart.gender)
    /\ LET r == ResolveHetero(user, counterpart)
       IN  /\ ak_raw' = IF r.status = "ok" THEN r ELSE ak_raw
           /\ ak' = Adapt(compatibility_type, r)
    /\ pc' = "done"
    /\ UNCHANGED <<user, counterpart, compatibility_type, a_first, a_swap,
                   ashtakoota_result>>
    /\ UNCHANGED storeVars

DualOrientation ==
    /\ pc = "call"
    /\ ~ReturnsNone(user, counterpart, compatibility_type)
    /\ ~hetero_love(compatibility_type, user.gender, counterpart.gender)
    /\ LET first == run_ak(user, counterpart)
           swap  == run_ak(counterpart, user)
       IN  IF first.status # "ok"
           THEN \* the first run_ak raises; nothing later runs
                /\ a_first' = a_first
                /\ a_swap' = a_swap
                /\ ak_raw' = ak_raw
                /\ ak' = first
           ELSE /\ a_first' = first
                /\ a_swap' = swap
                /\ ak_raw' = SelectOrientation(first, swap)
                /\ ak' = Adapt(compatibility_type, SelectOrientation(first, swap))
    /\ pc' = "done"
    /\ UNCHANGED <<user, counterpart, compatibility_type, ashtakoota_result>>
    /\ UNCHANGED storeVars

Next == EarlyReturn \/ HeteroLove \/ DualOrientation

(***************************************************************************)
(* The report endpoints (routers/users.py): get_user_compatibility_with_   *)
(* user and _calculate_compatibility on a cache miss.  The route accepts   *)
(* only "love" or "friendship".                                            *)
(***************************************************************************)
HTTPException(status_code) == [status |-> "HTTPException", status_code |-> status_code]

\* the boy and the girl of the report path
ReportRoles(u, c, ctype) ==
    IF ctype = "love"
       /\ u.gender \in {"male", "female"}
       /\ c.gender \in {"male", "female"}
       /\ u.gender # c.gender
    THEN IF u.gender = "male" THEN <<u, c>> ELSE <<c, u>>
    ELSE <<u, c>>

_calculate_compatibility(u, c, ctype) ==
    IF ~c.birth \/ ~u.birth THEN HTTPException(400)
    ELSE LET roles == ReportRoles(u, c, ctype)
             r == compatibility_ashtakoota(
                      roles[1].moon_rashi, roles[1].nakshatra, roles[1].pada,
                      roles[2].moon_rashi, roles[2].nakshatra, roles[2].pada)
         IN  IF r.status = "ok" THEN r ELSE HTTPException(500)

CalculateCompatibility ==
    /\ ashtakoota_result = Unset
    /\ compatibility_type \in {"love", "friendship"}
    /\ ashtakoota_result' = _calculate_compatibility(user, counterpart, compatibility_type)
    /\ UNCHANGED <<user, counterpart, compatibility_type, pc, a_first, a_swap, ak_raw, ak>>
    /\ UNCHANGED storeVars

NextReport == Next \/ CalculateCompatibility

(***************************************************************************)
(* Inputs.  get_panchanga documents moon_rashi 1-12, nakshatra 1-27 and    *)
(* pada 1-4 (tools.py 188-190); gender is 'male', 'female', 'other' or     *)
(* None (models/user.py 18).  A person whose birth city or time is missing *)
(* (or cannot be geocoded) has no panchanga details at all.                *)
(***************************************************************************)
Rashis == 1..12

Nakshatras == 1..27

Padas == 1..4

Genders == {"male", "female", "other", "none"}

Kinds == {"love", "friendship"}

Person(r, n, p, g) ==
    [moon_rashi |-> r, nakshatra |-> n, pada |-> p, gender |-> g, birth |-> TRUE]

NoBirth(g) ==
    [moon_rashi |-> 0, nakshatra |-> 0, pada |-> 0, gender |-> g, birth |-> FALSE]

ValidProfile(x) ==
    /\ x.birth
    /\ x.moon_rashi \in Rashis
    /\ x.nakshatra \in Nakshatras
    /\ x.pada \in Padas

\* SpecNear: the counterpart's sign, asterism and pada lie above the user's by
\* offsets that add up to at most MaxOffset
MaxOffset == 2

\* the current user, a friend of theirs and one of their partners
Ids == {"me", "u1", "p1"}

Others == Ids \ {"me"}

\* SQL NULL / None in a column
Null == [status |-> "null"]

NoThread == [status |-> "no thread"]

\* the tables while only the engine is looked at
InitStoreIdle ==
    /\ people = [i \in Ids |-> NoBirth("none")]
    /\ thread = NoThread
    /\ compatibilities = [k \in Others \X Kinds |-> Null]
    /\ analysis = Unset

InitLocals ==
    /\ pc = "call"
    /\ a_first = Unset
    /\ a_swap = Unset
    /\ ak_raw = Unset
    /\ ak = Unset
    /\ ashtakoota_result = Unset
    /\ InitStoreIdle

\* calls that return None: no usable compatibility_type, or birth data missing
InitIncomplete ==
    /\ user \in {NoBirth(g) : g \in Genders} \cup {Person(1, 1, 1, g) : g \in Genders}
    /\ counterpart \in {NoBirth(g) : g \in Genders} \cup {Person(1, 1, 1, g) : g \in Genders}
    /\ compatibility_type \in Kinds \cup {"none"}
    /\ ReturnsNone(user, counterpart, compatibility_type)
    /\ InitLocals

\* every pair of signs with every pair of asterisms (first pada), for a man and a
\* woman of whom either one is the requesting user
InitPairs ==
    /\ user \in {Person(r, n, 1, g) :
                    r \in Rashis, n \in Nakshatras, g \in {"male", "female"}}
    /\ counterpart \in {Person(r, n, 1, g) :
                    r \in Rashis, n \in Nakshatras, g \in {"male", "female"} \ {user.gender}}
    /\ compatibility_type \in Kinds
    /\ InitLocals

\* every valid user with every gender, and a counterpart whose details equal the
\* user's or lie a little above them (so also just outside the documented domains)
InitNear ==
    /\ user \in {Person(r, n, p, g) :
                    r \in Rashis, n \in Nakshatras, p \in Padas, g \in Genders}
    /\ counterpart \in {Person(user.moon_rashi + dr, user.nakshatra + dn, user.pada + dp, g) :
                    dr \in 0..MaxOffset, dn \in 0..MaxOffset, dp \in 0..MaxOffset,
                    g \in Genders}
    /\ (counterpart.moon_rashi - user.moon_rashi)
         + (counterpart.nakshatra - user.nakshatra)
         + (counterpart.pada - user.pada) <= MaxOffset
    /\ compatibility_type \in Kinds
    /\ InitLocals

Init == InitPairs \/ InitIncomplete

Spec == Init /\ [][Next]_vars

SpecNear == (InitNear \/ InitIncomplete) /\ [][Next]_vars

\* the people of SpecNear whose user is in the first pada (no path reads it)
InitReport == InitNear /\ user.pada = 1

\* both paths serve the same two people; neither waits for the other
SpecReport == (InitReport \/ InitIncomplete) /\ [][NextReport]_vars

(***************************************************************************)
(* Stored results: the chat thread's ashtakoota_raw_json (routers/users.py *)
(* create_chat_thread, update_chat_thread) and the compatibilities table   *)
(* read and written by _calculate_compatibility.  The friend u1 and the    *)
(* partner p1 pass _validate_participant_users/_partners; every stored     *)
(* profile has birth data the engine can score.                            *)
(***************************************************************************)
StoredProfiles == {Person(1, 1, 1, "male"), Person(4, 3, 2, "female")}

\* the engine's own variables while only the tables are looked at
InitEngineIdle ==
    /\ user = NoBirth("none")
    /\ counterpart = NoBirth("none")
    /\ compatibility_type = "none"
    /\ pc = "idle"
    /\ a_first = Unset
    /\ a_swap = Unset
    /\ ak_raw = Unset
    /\ ak = Unset
    /\ ashtakoota_result = Unset

InitStore ==
    /\ InitEngineIdle
    /\ people \in [Ids -> StoredProfiles]
    /\ thread = NoThread
    /\ compatibilities = [k \in Others \X Kinds |-> Null]
    /\ analysis = Unset

\* json.dumps of a result dict: a text column holding that dict
json_dumps(x) == [status |-> "json", value |-> x]

\* compatibility_service.py 117-148
compute_ashtakoota_raw_json_for_context(current_user_id, participant_user_ids, participant_partner_ids, ctype) ==
    IF ctype \notin {"love", "friendship"} THEN Null
    ELSE IF Cardinality(participant_user_ids) + Cardinality(participant_partner_ids) # 1 THEN Null
    ELSE LET other_id == CHOOSE i \in participant_user_ids \cup participant_partner_ids : TRUE
         IN  IF other_id = current_user_id THEN Null
             ELSE LET result == compute_ashtakoota_raw(people[current_user_id], people[other_id], ctype)
                  IN  IF result = NoneResult THEN Null ELSE json_dumps(result)

\* a request field holding a list of ids: left out, sent as null, or sent as a list
IdListFields(candidates) ==
    {[sent |-> "unset", value |-> {}], [sent |-> "null", value |-> {}]}
        \cup {[sent |-> "list", value |-> ids] : ids \in SUBSET candidates}

\* POST /me/threads
CreateChatThread ==
    /\ thread = NoThread
    /\ \E uids \in IdListFields({"me", "u1"}), pids \in IdListFields({"p1"}),
          ctype \in Kinds \cup {"none"} :
          LET participant_uids == uids.value
              participant_pids == pids.value
              wants_data == (participant_uids # {} \/ participant_pids # {}) /\ ctype # "none"
              compatibility_data ==
                  IF ~wants_data THEN Null
                  ELSE IF Cardinality(participant_uids) = 1
                  THEN compute_ashtakoota_raw_json_for_context("me", participant_uids, {}, ctype)
                  ELSE compute_ashtakoota_raw_json_for_context("me", {}, participant_pids, ctype)
          IN  \* HTTP 400 and no row unless exactly one participant goes with a type
              /\ wants_data => Cardinality(participant_uids) + Cardinality(participant_pids) = 1
              /\ thread' = [status |-> "thread",
                            participant_user_ids |-> participant_uids,
                            participant_partner_ids |-> participant_pids,
                            compatibility_type |-> ctype,
                            ashtakoota_raw_json |-> compatibility_data]
    /\ UNCHANGED <<user, counterpart, compatibility_type, pc, a_first, a_swap, ak_raw, ak>>
    /\ UNCHANGED <<ashtakoota_result, people, compatibilities, analysis>>

\* PATCH /me/threads/{thread_id}: every field that was sent is set on the row
UpdateChatThread ==
    /\ thread # NoThread
    /\ \E uids \in IdListFields({"me", "u1"}), pids \in IdListFields({"p1"}),
          ctype \in Kinds \cup {"none", "unset"} :
          \* HTTP 400 and no change unless exactly one participant goes with a type
          /\ ((uids.sent = "list" \/ pids.sent = "list") /\ ctype \in Kinds) =>
                 Cardinality(uids.value) + Cardinality(pids.value) = 1
          /\ thread' = [thread EXCEPT
                 !.participant_user_ids = IF uids.sent = "unset" THEN @ ELSE uids.value,
                 !.participant_partner_ids = IF pids.sent = "unset" THEN @ ELSE pids.value,
                 !.compatibility_type = IF ctype = "unset" THEN @ ELSE ctype]
    /\ UNCHANGED <<user, counterpart, compatibility_type, pc, a_first, a_swap, ak_raw, ak>>
    /\ UNCHANGED <<ashtakoota_result, people, compatibilities, analysis>>

NextThreads == CreateChatThread \/ UpdateChatThread

SpecThreads == InitStore /\ [][NextThreads]_vars

\* GET /me/compatibility/{partner_id} and /me/compatibility-with-user/{id}:
\* the stored row is returned when there is one, else the result is computed
\* and stored.  The analysis written from a result is taken to be that result.
GetUserCompatibility ==
    /\ \E other \in Others, report_type \in Kinds :
          LET existing_compatibility == compatibilities[<<other, report_type>>]
              computed == _calculate_compatibility(people["me"], people[other], report_type)
          IN  IF existing_compatibility # Null
              THEN /\ analysis' = [status |-> "analysis", cached |-> TRUE, other |-> other,
                                   report_type |-> report_type,
                                   result |-> existing_compatibility]
                   /\ UNCHANGED compatibilities
              ELSE /\ analysis' = [status |-> "analysis", cached |-> FALSE, other |-> other,
                                   report_type |-> report_type, result |-> computed]
                   /\ compatibilities' =
                         IF computed.status = "ok"
                         THEN [compatibilities EXCEPT ![<<other, report_type>>] = computed]
                         ELSE compatibilities
    /\ UNCHANGED <<user, counterpart, compatibility_type, pc, a_first, a_swap, ak_raw, ak>>
    /\ UNCHANGED <<ashtakoota_result, people, thread>>

\* PATCH /me by either user: birth time, birth city or gender replaced; the
\* response is the user row
UpdateUserInfo ==
    /\ \E id \in {"me", "u1"}, update_data \in StoredProfiles :
          /\ people[id] # update_data
          /\ people' = [people EXCEPT ![id] = update_data]
    /\ analysis' = [status |-> "user"]
    /\ UNCHANGED <<user, counterpart, compatibility_type, pc, a_first, a_swap, ak_raw, ak>>
    /\ UNCHANGED <<ashtakoota_result, thread, compatibilities>>

NextCache == GetUserCompatibility \/ UpdateUserInfo

SpecCache == InitStore /\ [][NextCache]_vars

(***************************************************************************)
(* Properties                                                              *)
(***************************************************************************)
Done == pc = "done"

BothValid == ValidProfile(user) /\ ValidProfile(counterpart)

Returned == Done /\ ak.status = "ok"

SameDetails ==
    /\ user.moon_rashi = counterpart.moon_rashi
    /\ user.nakshatra = counterpart.nakshatra
    /\ user.pada = counterpart.pada

\* C1: for valid profiles, any genders and either kind, the returned total lies
\* between 0 and the maximum of the kind: 36 points for love, 32 for friendship.
TotalWithinMax ==
    (Returned /\ BothValid) =>
        /\ 0 <= ak.total
        /\ compatibility_type = "love" => ak.total <= Pts(36)
        /\ compatibility_type = "friendship" => ak.total <= Pts(32)
        /\ ak.total <= _calculate_max_score(compatibility_type)

TotalWithinMaxWitness ==
    /\ Returned /\ BothValid
    /\ compatibility_type = "friendship"
    /\ ak_raw.total > Pts(32)
    /\ ak.total > Pts(30)

\* C2: identical profiles (same sign, asterism and pada) under love score
\* Varna 1, Vashya 2, Tara 3, Yoni 4, Maitri 5, Gana 6, Bhakoot 7, Nadi 0, total 28,
\* with both doshas cancelled, in whichever orientation they are scored.
IdenticalScores ==
    [Varna |-> Pts(1), Vashya |-> Pts(2), Tara |-> Pts(3), Yoni |-> Pts(4),
     Maitri |-> Pts(5), Gana |-> Pts(6), Bhakoot |-> Pts(7), Nadi |-> 0]

IsIdenticalResult(r) ==
    /\ r.status = "ok"
    /\ r.scores = IdenticalScores
    /\ r.total = Pts(28)
    /\ r.dosha_cancellation.Nadi
    /\ r.dosha_cancellation.Bhakoot

IdenticalProfilesScore28 ==
    (Done /\ BothValid /\ SameDetails /\ compatibility_type = "love") =>
        /\ IsIdenticalResult(ak)
        /\ IsIdenticalResult(ak_raw)
        /\ ~hetero_love(compatibility_type, user.gender, counterpart.gender) =>
              IsIdenticalResult(a_first) /\ IsIdenticalResult(a_swap)

IdenticalProfilesWitness ==
    /\ Done /\ SameDetails
    /\ compatibility_type = "love"
    /\ user.moon_rashi = 12 /\ user.nakshatra = 27 /\ user.pada = 4
    /\ user.gender = "female" /\ counterpart.gender = "male"
    /\ ak.status = "ok" /\ ak.total = Pts(28)

\* C3: when the roles are not gender-defined (friendship, equal genders, or a
\* gender that is missing or 'other') both orientations are scored and the
\* swapped one is kept only if its total is strictly higher; a tie keeps (A,B).
RolesNotGenderDefined ==
    \/ compatibility_type = "friendship"
    \/ user.gender = counterpart.gender
    \/ user.gender \in {"none", "other"}
    \/ counterpart.gender \in {"none", "other"}

SwapOnlyIfStrictlyHigher ==
    (Done /\ BothValid /\ compatibility_type \in Kinds /\ RolesNotGenderDefined) =>
        /\ a_first = run_ak(user, counterpart)
        /\ a_swap = run_ak(counterpart, user)
        /\ ak_raw = IF a_swap.total > a_first.total THEN a_swap ELSE a_first
        /\ compatibility_type = "love" => ak = ak_raw
        /\ \A k \in KootaNames \ {"Yoni", "Bhakoot"} : ak.scores[k] = ak_raw.scores[k]

SwapHigherWitness ==
    /\ Done /\ BothValid
    /\ compatibility_type = "love"
    /\ user.gender = "other"
    /\ a_first.status = "ok"
    /\ a_swap.total > a_first.total
    /\ ak = a_swap

\* C4: for love between a man and a woman the male profile is scored as the boy
\* and the female as the girl, whoever asks; only that orientation is returned,
\* also when the opposite orientation totals higher.
MaleProfile == IF user.gender = "male" THEN user ELSE counterpart

FemaleProfile == IF user.gender = "female" THEN user ELSE counterpart

MaleIsPrimary ==
    (Done /\ BothValid /\ compatibility_type = "love"
          /\ {user.gender, counterpart.gender} = {"male", "female"}) =>
        /\ ak = run_ak(MaleProfile, FemaleProfile)
        /\ ak_raw = ak
        /\ a_first = Unset /\ a_swap = Unset

MaleIsPrimaryWitness ==
    /\ Done /\ BothValid
    /\ compatibility_type = "love"
    /\ user.gender = "female" /\ counterpart.gender = "male"
    /\ ak.status = "ok"
    /\ run_ak(user, counterpart).total > ak.total

\* C5: a friendship result is the fold of the selected orientation's scores:
\* Bhakoot = min(7, Bhakoot + Yoni), Yoni = 0, the other six scores and both dosha
\* flags unchanged; a love result has no score changed.
FoldOnlyForFriendship ==
    (Returned /\ BothValid) =>
        /\ compatibility_type = "friendship" =>
              /\ ak.scores.Bhakoot =
                    Min(Pts(7), ak_raw.scores.Bhakoot + ak_raw.scores.Yoni)
              /\ ak.scores.Yoni = 0
              /\ \A k \in KootaNames \ {"Yoni", "Bhakoot"} :
                    ak.scores[k] = ak_raw.scores[k]
              /\ ak.dosha_cancellation = ak_raw.dosha_cancellation
        /\ compatibility_type = "love" =>
              /\ ak.scores = ak_raw.scores
              /\ ak.dosha_cancellation = ak_raw.dosha_cancellation

FoldWitness ==
    /\ Returned /\ BothValid
    /\ compatibility_type = "friendship"
    /\ ak_raw.scores.Bhakoot = 0 /\ ak_raw.scores.Yoni = Pts(3)
    /\ ak.scores.Bhakoot = Pts(3) /\ ak.scores.Yoni = 0

\* C6: in every returned result, of either kind, total is the sum of the eight
\* factor scores as they stand in that result.
TotalIsSumOfScores ==
    Returned => ak.total = SumScores(ak.scores)

TotalIsSumWitness ==
    /\ Returned /\ BothValid
    /\ compatibility_type = "friendship"
    /\ ak.total < ak_raw.total
    /\ ak.total = SumScores(ak.scores)

\* C7 as claimed: for valid profiles and either kind every factor score lies in
\* its documented set: Varna {0,1}, Vashya {1,2}, Tara {0,1.5,3}, Yoni {0..4},
\* Maitri {0,1,3,4,5}, Gana {0,1,5,6}, Bhakoot {0,7}, Nadi {0,8}.
InSetsExceptBhakoot(scores) ==
    /\ scores.Varna \in {0, Pts(1)}
    /\ scores.Vashya \in {Pts(1), Pts(2)}
    /\ scores.Tara \in {0, Pts(3) \div 2, Pts(3)}
    /\ scores.Yoni \in {0, Pts(1), Pts(2), Pts(3), Pts(4)}
    /\ scores.Maitri \in {0, Pts(1), Pts(3), Pts(4), Pts(5)}
    /\ scores.Gana \in {0, Pts(1), Pts(5), Pts(6)}
    /\ scores.Nadi \in {0, Pts(8)}

FactorScoresInDocumentedSets ==
    (Returned /\ BothValid) =>
        /\ InSetsExceptBhakoot(ak.scores)
        /\ ak.scores.Bhakoot \in {0, Pts(7)}

\* C7 as amended: a love result has every factor score in its documented set; a
\* friendship result has too, except that Bhakoot, which then holds the folded
\* Yoni score as well, lies in {0, 2, 3, 4, 7}.
FactorScoresInSetsWithFold ==
    (Returned /\ BothValid) =>
        /\ InSetsExceptBhakoot(ak.scores)
        /\ compatibility_type = "love" => ak.scores.Bhakoot \in {0, Pts(7)}
        /\ compatibility_type = "friendship" =>
              ak.scores.Bhakoot \in {0, Pts(2), Pts(3), Pts(4), Pts(7)}

FoldedBhakootWitness ==
    /\ Returned /\ BothValid
    /\ compatibility_type = "friendship"
    /\ ak.scores.Bhakoot = Pts(2)

\* C8: nadi_cancelled is true exactly when the profiles share a sign or share an
\* asterism, bhakoot_cancelled exactly when the signs are equal, and both
\* orientations give the same flags.
DoshaFlags ==
    (Returned /\ BothValid) =>
        /\ ak.dosha_cancellation.Nadi <=>
              (user.moon_rashi = counterpart.moon_rashi
                  \/ user.nakshatra = counterpart.nakshatra)
        /\ ak.dosha_cancellation.Bhakoot <=>
              (user.moon_rashi = counterpart.moon_rashi)
        /\ a_first # Unset =>
              a_first.dosha_cancellation = a_swap.dosha_cancellation

DoshaFlagsWitness ==
    /\ Returned /\ BothValid
    /\ user.moon_rashi = counterpart.moon_rashi
    /\ user.nakshatra # counterpart.nakshatra
    /\ a_first # Unset
    /\ a_first.scores # a_swap.scores
    /\ ak.dosha_cancellation.Nadi
    /\ ak.dosha_cancellation.Bhakoot

\* C9: a profile field outside its domain (sign 1-12, asterism 1-27, pada 1-4) is
\* rejected with OutOfRangeInput before any table lookup: no result is returned
\* and no missing-key error comes out of a scorer.
OutOfRangeRejected ==
    (Done /\ user.birth /\ counterpart.birth /\ compatibility_type \in Kinds
          /\ ~BothValid) =>
        ak.status = "OutOfRangeInput"

DualScored == Done /\ BothValid /\ a_first # Unset

Orientations ==
    IF ~(Done /\ BothValid) THEN {}
    ELSE IF a_first # Unset
    THEN {<<user, counterpart, a_first>>, <<counterpart, user, a_swap>>}
    ELSE IF ak_raw # Unset THEN {<<MaleProfile, FemaleProfile, ak_raw>>}
    ELSE {}

GanaOf(x) == NAKSHATRA_TO_GANA[x.nakshatra]

\* C11: when one asterism is Deva and the other Rakshasa, the Gana score with the
\* Deva profile as primary differs from the Gana score with the roles swapped.
GanaDevaRakshasaAsymmetric ==
    (DualScored /\ {GanaOf(user), GanaOf(counterpart)} = {"Deva", "Rakshasa"}) =>
        a_first.scores.Gana # a_swap.scores.Gana

GanaAsymmetricWitness ==
    /\ DualScored
    /\ GanaOf(user) = "Deva" /\ GanaOf(counterpart) = "Rakshasa"
    /\ a_first.scores.Gana = Pts(1)
    /\ a_swap.scores.Gana = 0

VarnaRank(x) == VARNA_HIERARCHY[RASHI_TO_VARNA[x.moon_rashi]]

VarnaRule(boy, girl) ==
    IF VarnaRank(boy) = VarnaRank(girl) \/ VarnaRank(boy) >= VarnaRank(girl)
    THEN Pts(1)
    ELSE 0

\* C12 as claimed: the Varna score is 1 if the ranks are equal or primary's rank
\* >= secondary's, else 0, and is the same with primary and secondary swapped.
VarnaOrderInsensitive ==
    /\ \A o \in Orientations : o[3].scores.Varna = VarnaRule(o[1], o[2])
    /\ DualScored => a_first.scores.Varna = a_swap.scores.Varna

\* C12 as amended: the Varna score is 1 if the ranks are equal or primary's rank
\* >= secondary's, else 0; swapping primary and secondary changes it exactly
\* when the two ranks differ.
VarnaOrderSensitive ==
    /\ \A o \in Orientations : o[3].scores.Varna = VarnaRule(o[1], o[2])
    /\ DualScored =>
          ((a_first.scores.Varna # a_swap.scores.Varna)
              <=> (VarnaRank(user) # VarnaRank(counterpart)))

VarnaOrderSensitiveWitness ==
    /\ DualScored
    /\ VarnaRank(user) > VarnaRank(counterpart)
    /\ a_first.scores.Varna = Pts(1)
    /\ a_swap.scores.Varna = 0

\* C13: the Tara, Yoni and Nadi scores are unchanged when primary and secondary
\* are swapped, for every pair of asterisms.
TaraYoniNadiSymmetric ==
    DualScored =>
        /\ a_first.scores.Tara = a_swap.scores.Tara
        /\ a_first.scores.Yoni = a_swap.scores.Yoni
        /\ a_first.scores.Nadi = a_swap.scores.Nadi

TaraYoniNadiSymmetricWitness ==
    /\ DualScored
    /\ user.nakshatra = 1 /\ counterpart.nakshatra = 3
    /\ a_first.scores.Gana # a_swap.scores.Gana
    /\ a_first.scores.Tara = a_swap.scores.Tara
    /\ a_first.scores.Nadi = Pts(8)

\* C14 as claimed: each of Vashya, Maitri, Gana and Bhakoot has at least one
\* pair of valid profiles for which swapping primary and secondary changes that
\* factor's score.
FourFactorsOrderSensitive ==
    DualScored =>
        /\ \E r1, r2 \in Rashis : vashya_score(r1, r2) # vashya_score(r2, r1)
        /\ \E r1, r2 \in Rashis : maitri_score(r1, r2) # maitri_score(r2, r1)
        /\ \E n1, n2 \in Nakshatras : gana_score(n1, n2) # gana_score(n2, n1)
        /\ \E r1, r2 \in Rashis : bhakoot_score(r1, r2) # bhakoot_score(r2, r1)

\* C14 as amended: Maitri and Gana each have at least one pair of valid profiles
\* for which swapping primary and secondary changes the score; Vashya and
\* Bhakoot give the same score in both orders for every pair of signs.
MaitriGanaOrderSensitiveOnly ==
    DualScored =>
        /\ \E r1, r2 \in Rashis : maitri_score(r1, r2) # maitri_score(r2, r1)
        /\ \E n1, n2 \in Nakshatras : gana_score(n1, n2) # gana_score(n2, n1)
        /\ a_first.scores.Vashya = a_swap.scores.Vashya
        /\ a_first.scores.Bhakoot = a_swap.scores.Bhakoot

MaitriGanaOrderSensitiveWitness ==
    /\ DualScored
    /\ a_first.scores.Maitri # a_swap.scores.Maitri
    /\ a_first.scores.Gana # a_swap.scores.Gana
    /\ a_first.scores.Vashya = a_swap.scores.Vashya
    /\ a_first.scores.Bhakoot = a_swap.scores.Bhakoot

VashyaClass(x) == RASHI_TO_VASHYA[x.moon_rashi]

VashyaRule(boy, girl) ==
    LET pair == <<boy.moon_rashi, girl.moon_rashi>>
    IN  IF pair \in DOMAIN VASHYA_SPECIAL THEN Pts(VASHYA_SPECIAL[pair])
        ELSE IF VashyaClass(boy) = VashyaClass(girl)
                \/ VashyaClass(girl) \in VASHYA_COMPATIBLE[VashyaClass(boy)]
        THEN Pts(2)
        ELSE Pts(1)

\* C15: the Vashya score is the special table's value (1 or 2, the same for both
\* orders of the pair) when the sign pair is in that table; otherwise 2 if the
\* classes are equal or secondary's class is in primary's compatible set, and 1
\* otherwise; it is never 0.
VashyaFollowsRule ==
    \A o \in Orientations :
        LET pair == <<o[1].moon_rashi, o[2].moon_rashi>>
            riap == <<o[2].moon_rashi, o[1].moon_rashi>>
        IN  /\ o[3].scores.Vashya = VashyaRule(o[1], o[2])
            /\ o[3].scores.Vashya # 0
            /\ pair \in DOMAIN VASHYA_SPECIAL =>
                  /\ VASHYA_SPECIAL[pair] \in {1, 2}
                  /\ riap \in DOMAIN VASHYA_SPECIAL
                  /\ VASHYA_SPECIAL[riap] = VASHYA_SPECIAL[pair]

VashyaSpecialWitness ==
    /\ DualScored
    /\ user.moon_rashi = 2 /\ counterpart.moon_rashi = 7
    /\ VashyaClass(user) # VashyaClass(counterpart)
    /\ a_first.scores.Vashya = Pts(2)
    /\ a_swap.scores.Vashya = Pts(2)

TaraRem(from, to) ==
    LET m == (from - to) % 27
        d == IF m = 0 THEN 27 ELSE m
        r == d % 9
    IN  IF r = 0 THEN 9 ELSE r

TaraRule(boy, girl) ==
    LET n == Cardinality({i \in 1..2 :
                 IF i = 1 THEN TaraRem(boy.nakshatra, girl.nakshatra) \in {2, 4, 6, 8, 9}
                 ELSE TaraRem(girl.nakshatra, boy.nakshatra) \in {2, 4, 6, 8, 9}})
    IN  (n * Pts(3)) \div 2

\* C16: the Tara score is 3 if both direction remainders are in {2,4,6,8,9},
\* 1.5 if exactly one is, and 0 if neither is, for every asterism pair.
TaraFollowsRule ==
    \A o \in Orientations : o[3].scores.Tara = TaraRule(o[1], o[2])

TaraOneFavorableWitness ==
    /\ Done /\ BothValid /\ ak_raw # Unset /\ a_first = Unset
    /\ TaraRem(MaleProfile.nakshatra, FemaleProfile.nakshatra) = 2
    /\ TaraRem(FemaleProfile.nakshatra, MaleProfile.nakshatra) = 7
    /\ ak_raw.scores.Tara = Pts(3) \div 2

YoniOf(x) == NAKSHATRA_TO_YONI[x.nakshatra]

YoniRule(boy, girl) ==
    LET InEitherOrder(S) == <<YoniOf(boy), YoniOf(girl)>> \in S
                            \/ <<YoniOf(girl), YoniOf(boy)>> \in S
    IN  IF YoniOf(boy) = YoniOf(girl) THEN Pts(4)
        ELSE IF InEitherOrder(HIGHLY_INIMICAL_PAIRS) THEN 0
        ELSE IF InEitherOrder(FRIENDLY_PAIRS) THEN Pts(3)
        ELSE IF InEitherOrder(ENEMY_PAIRS) THEN Pts(1)
        ELSE Pts(2)

\* C17: the Yoni score is 4 for the same class; else 0 if the unordered class
\* pair is highly inimical; else 3 if friendly in either order; else 1 if enemy
\* in either order; else 2.
YoniFollowsPrecedence ==
    \A o \in Orientations : o[3].scores.Yoni = YoniRule(o[1], o[2])

YoniPrecedenceWitness ==
    /\ DualScored
    /\ <<YoniOf(user), YoniOf(counterpart)>> \in HIGHLY_INIMICAL_PAIRS \cap FRIENDLY_PAIRS
    /\ a_first.scores.Yoni = 0
    /\ a_swap.scores.Yoni = 0

LordOf(x) == RASHI_LORDS[x.moon_rashi]

MaitriRule(boy, girl) ==
    LET rel == PLANET_RELATIONSHIPS[LordOf(boy)]
    IN  CASE LordOf(boy) = LordOf(girl)    -> Pts(5)
          [] LordOf(boy) # LordOf(girl) /\ LordOf(girl) \in rel.friends -> Pts(4)
          [] LordOf(boy) # LordOf(girl) /\ LordOf(girl) \notin rel.friends
               /\ LordOf(girl) \in rel.neutral -> Pts(3)
          [] LordOf(boy) # LordOf(girl) /\ LordOf(girl) \notin rel.friends
               /\ LordOf(girl) \notin rel.neutral /\ LordOf(girl) \in rel.enemies -> Pts(1)
          [] OTHER -> 0

\* C18: the Maitri score is 5 for the same ruler; else 4, 3 or 1 as secondary's
\* ruler is among primary's ruler's friends, neutrals or enemies; else 0.  The
\* relation is read from primary's side only, so it can differ under a swap.
MaitriFromPrimarySide ==
    /\ \A o \in Orientations : o[3].scores.Maitri = MaitriRule(o[1], o[2])
    /\ \E r1, r2 \in Rashis : maitri_score(r1, r2) # maitri_score(r2, r1)

MaitriFromPrimarySideWitness ==
    /\ DualScored
    /\ LordOf(user) = "Mars" /\ LordOf(counterpart) = "Moon"
    /\ a_first.scores.Maitri = Pts(4)
    /\ a_swap.scores.Maitri = Pts(3)

\* C19 as claimed: the Gana table is read at (primary's temperament, secondary's
\* temperament); a Deva primary with a Rakshasa secondary scores 0 and a
\* Rakshasa primary with a Deva secondary scores 1.
GanaLookupPrimaryFirst ==
    \A o \in Orientations :
        /\ o[3].scores.Gana = Pts(GANA_SCORING_TABLE[<<GanaOf(o[1]), GanaOf(o[2])>>])
        /\ (GanaOf(o[1]) = "Deva" /\ GanaOf(o[2]) = "Rakshasa") => o[3].scores.Gana = 0
        /\ (GanaOf(o[1]) = "Rakshasa" /\ GanaOf(o[2]) = "Deva") => o[3].scores.Gana = Pts(1)

\* C19 as amended: the Gana table is read at (secondary's temperament, primary's
\* temperament); a Deva primary with a Rakshasa secondary scores 1 and a
\* Rakshasa primary with a Deva secondary scores 0.
GanaLookupSecondaryFirst ==
    \A o \in Orientations :
        /\ o[3].scores.Gana = Pts(GANA_SCORING_TABLE[<<GanaOf(o[2]), GanaOf(o[1])>>])
        /\ (GanaOf(o[1]) = "Deva" /\ GanaOf(o[2]) = "Rakshasa") => o[3].scores.Gana = Pts(1)
        /\ (GanaOf(o[1]) = "Rakshasa" /\ GanaOf(o[2]) = "Deva") => o[3].scores.Gana = 0

GanaLookupWitness ==
    /\ Done /\ BothValid /\ ak_raw # Unset /\ a_first = Unset
    /\ GanaOf(MaleProfile) = "Deva" /\ GanaOf(FemaleProfile) = "Rakshasa"
    /\ ak_raw.scores.Gana = Pts(1)

Reported == ashtakoota_result.status = "ok"

\* C20 as claimed: for the same two profiles, genders and kind the report path
\* and the engine path hand downstream the same eight scores and the same
\* total, and a Friendship result handed over has Yoni = 0.
ReportMatchesEngine ==
    (Done /\ Returned /\ Reported) =>
        /\ ashtakoota_result.scores = ak.scores
        /\ ashtakoota_result.total = ak.total
        /\ compatibility_type = "friendship" => ashtakoota_result.scores.Yoni = 0

\* C21: the Tara score is never 0; it is 3 exactly when the two asterisms differ
\* by a multiple of 9 (equal asterisms included) and 1.5 for every other pair.
TaraNeverZero ==
    \A o \in Orientations :
        /\ o[3].scores.Tara # 0
        /\ o[3].scores.Tara =
              IF (o[1].nakshatra - o[2].nakshatra) % 9 = 0 THEN Pts(3) ELSE Pts(3) \div 2

TaraMultipleOfNineWitness ==
    /\ DualScored
    /\ user.nakshatra = 2 /\ counterpart.nakshatra = 20
    /\ a_first.scores.Tara = Pts(3)
    /\ a_swap.scores.Tara = Pts(3)

\* C22: the Yoni score is never 1: every pair of the enemy set is also in the
\* highly inimical set, which is tested first, so the score is one of 0, 2, 3, 4.
YoniNeverOne ==
    \A o \in Orientations :
        /\ o[3].scores.Yoni \in {0, Pts(2), Pts(3), Pts(4)}
        /\ ENEMY_PAIRS \subseteq HIGHLY_INIMICAL_PAIRS

YoniEnemyScoresZeroWitness ==
    /\ DualScored
    /\ <<YoniOf(user), YoniOf(counterpart)>> = <<"Gaja", "Simha">>
    /\ <<YoniOf(user), YoniOf(counterpart)>> \in ENEMY_PAIRS
    /\ a_first.scores.Yoni = 0

\* the asterisms of the classes written Ashwa, Shwan and Vanara in the
\* asterism table and Ashva, Shvana and Vana in the pair sets
MisspelledAsterisms == {1, 24} \cup {6, 19} \cup {20, 22}

\* C23: an asterism whose class is spelled differently in the asterism table
\* than in the pair sets (Ashwa, Shwan, Vanara) scores Yoni 2 against every
\* asterism of a different class and 4 against one of its own class.
MisspelledClassesNeutral ==
    \A o \in Orientations :
        /\ {YoniOf([nakshatra |-> n]) : n \in MisspelledAsterisms} = {"Ashwa", "Shwan", "Vanara"}
        /\ (o[1].nakshatra \in MisspelledAsterisms \/ o[2].nakshatra \in MisspelledAsterisms) =>
              o[3].scores.Yoni =
                  IF (o[1].nakshatra \in {1, 24} /\ o[2].nakshatra \in {1, 24})
                     \/ (o[1].nakshatra \in {6, 19} /\ o[2].nakshatra \in {6, 19})
                     \/ (o[1].nakshatra \in {20, 22} /\ o[2].nakshatra \in {20, 22})
                  THEN Pts(4)
                  ELSE Pts(2)

MisspelledClassesWitness ==
    /\ Done /\ BothValid /\ ak_raw # Unset /\ a_first = Unset
    /\ YoniOf(MaleProfile) = "Ashwa" /\ YoniOf(FemaleProfile) = "Sarpa"
    /\ <<"Ashva", "Sarpa">> \in FRIENDLY_PAIRS
    /\ ak_raw.scores.Yoni = Pts(2)

YoniClassKnown(y) ==
    \E pair \in FRIENDLY_PAIRS \cup ENEMY_PAIRS \cup HIGHLY_INIMICAL_PAIRS :
        y = pair[1] \/ y = pair[2]

\* C25 as claimed: a lookup that finds no category or no entry for a pair (here
\* a Yoni class that no classification set names, met with a different class)
\* ends the evaluation with a fatal error; no default score is substituted.
UnmappedCategoryFatal ==
    (Done /\ BothValid /\ YoniOf(user) # YoniOf(counterpart)
          /\ (~YoniClassKnown(YoniOf(user)) \/ ~YoniClassKnown(YoniOf(counterpart)))) =>
        ak.status # "ok"

\* C26: the returned total does not depend on which profile is passed first:
\* evaluating (A,B) and evaluating (B,A) with the same kind return the same total.
TotalIndependentOfArgumentOrder ==
    (Done /\ BothValid) =>
        LET swapped == compute_ashtakoota_raw(counterpart, user, compatibility_type)
        IN  /\ ak = compute_ashtakoota_raw(user, counterpart, compatibility_type)
            /\ ak.status = swapped.status
            /\ ak.status = "ok" => ak.total = swapped.total

ArgumentOrderTieWitness ==
    /\ DualScored /\ Returned
    /\ compatibility_type = "friendship"
    /\ a_first.total = a_swap.total
    /\ a_first.scores # a_swap.scores
    /\ ak_raw = a_first
    /\ compute_ashtakoota_raw(counterpart, user, compatibility_type).scores # ak.scores
    /\ compute_ashtakoota_raw(counterpart, user, compatibility_type).total = ak.total

Discarded == IF ak_raw = a_first THEN a_swap ELSE a_first

\* C27: in Friendship mode the orientation kept by the comparison of pre-fold
\* totals also has a post-fold total greater than or equal to that of the
\* discarded orientation.
KeptOrientationStillBestAfterFold ==
    (DualScored /\ Returned /\ compatibility_type = "friendship") =>
        /\ ak = FriendshipFold(ak_raw)
        /\ ak_raw.total >= Discarded.total
        /\ ak.total >= FriendshipFold(Discarded).total

KeptAfterFoldWitness ==
    /\ DualScored /\ Returned
    /\ compatibility_type = "friendship"
    /\ ak_raw = a_swap
    /\ a_swap.total > a_first.total
    /\ ak.total < ak_raw.total
    /\ ak.total > FriendshipFold(a_first).total

FirstPada(x) == [x EXCEPT !.pada = 1]

\* C28: the returned scores, total and dosha flags do not depend on either
\* profile's pada: every evaluation returns what the evaluation of the same
\* two profiles with both padas set to 1 returns.
ResultIndependentOfPada ==
    (Done /\ BothValid) =>
        LET base == compute_ashtakoota_raw(FirstPada(user), FirstPada(counterpart),
                                           compatibility_type)
        IN  /\ ak.status = base.status
            /\ ak.status = "ok" =>
                  /\ ak.scores = base.scores
                  /\ ak.total = base.total
                  /\ ak.dosha_cancellation = base.dosha_cancellation

PadaWitness ==
    /\ Done /\ BothValid /\ Returned
    /\ user.pada = 3 /\ counterpart.pada = 4
    /\ user.nakshatra # counterpart.nakshatra
    /\ ak.total > 0

ThreadParticipants == thread.participant_user_ids \cup thread.participant_partner_ids

\* C29 as claimed: after any sequence of thread create and update operations the
\* stored ashtakoota_raw_json is either empty or the Ashtakoota result for the
\* thread's current participants and current compatibility_type.
ThreadResultIsCurrent ==
    thread # NoThread =>
        \/ thread.ashtakoota_raw_json = Null
        \/ thread.ashtakoota_raw_json =
              compute_ashtakoota_raw_json_for_context("me", thread.participant_user_ids,
                  thread.participant_partner_ids, thread.compatibility_type)

\* C30 as claimed: a report request answered from the stored rows returns the
\* result for the two people's current birth data and the requested kind.
CachedReportIsCurrent ==
    (analysis.status = "analysis" /\ analysis.cached) =>
        analysis.result =
            _calculate_compatibility(people["me"], people[analysis.other], analysis.report_type)

====
